---- MODULE Spec2Model ----
(***************************************************************************)
(* A model of meilimelo's query pipeline: the facet filter builder         *)
(* (facets.rs), the search query builder and its run() call (search.rs),   *)
(* and the decoded result container (results.rs).                          *)
(*                                                                         *)
(* Rust values are modelled as follows:                                    *)
(*   String / &str      a TLA+ string; format! is string concatenation     *)
(*   Vec<T>, &[T]       a sequence                                         *)
(*   Option<T>          None == <<>>, Some(v) == <<v>>                     *)
(*   struct             a record with the struct's field names             *)
(*   JSON value         a tagged record (JNull, JStr, JInt, JBool, JList,  *)
(*                      JObj); a JSON object is a function from its keys   *)
(***************************************************************************)
EXTENDS Integers, Sequences, FiniteSets, TLC

VARIABLES
  fpc,          \* facet builder: "start", "open" (a FacetBuilder exists), "built"; "parked": none
  builder,      \* the FacetBuilder value (current, accumulator)
  facetCalls,   \* the calls made on the builder so far: new first, then or/and
  built,        \* Option<Facets>: the value build() returned
  meili,        \* the MeiliMelo descriptor the query borrows
  searchIndex,  \* the index name given to search()
  q,            \* the Query value
  calls,        \* the setters called on the query so far, with their arguments
  pc,           \* "building", then run(): "sent", "responded", "done"
  requests,     \* the requests run() has issued
  response,     \* Option<response>: the status received, and the body once read
  decodes,      \* the body shapes run() has tried to decode the response as
  outcome,      \* Option<Result<Results<R>, Error>>: what run() returned
  it,           \* a decoded Results<T> and the iterations made over it
  conc,         \* the queries run concurrently on one shared descriptor
  op            \* a non-search operation (indices.rs, documents.rs) in progress

facetVars == <<fpc, builder, facetCalls, built>>
queryVars == <<meili, searchIndex, q, calls, pc, requests, response, decodes, outcome>>

otherVars == <<it, conc, op>>

vars == <<fpc, builder, facetCalls, built,
          meili, searchIndex, q, calls, pc, requests, response, decodes, outcome,
          it, conc, op>>

None == <<>>
Some(v) == <<v>>
IsSome(o) == o # <<>>
Unwrap(o) == o[1]

-----------------------------------------------------------------------------
(* Bounds and input sets                                                   *)

MaxFacetCalls == 2

FacetKeys == {"company", "roles"}
FacetValues == {"ACME", "Big Corp", "Tech"}

MaxSetterCalls == 2

MaxHits == 2
MaxPasses == 3

MaxRuns == 2

-----------------------------------------------------------------------------
(* facets.rs                                                               *)

\* format!("{}:{}", key, value)
FacetClause(key, value) == key \o ":" \o value

FacetBuilder_new(key, value) ==
  [current |-> <<FacetClause(key, value)>>, accumulator |-> <<>>]

\* or() pushing to the front of the open group
FacetBuilder_or_front(self, key, value) ==
  [self EXCEPT !.current = <<FacetClause(key, value)>> \o @]

FacetBuilder_or(self, key, value) ==
  [self EXCEPT !.current = Append(@, FacetClause(key, value))]

FacetBuilder_and(self, key, value) ==
  [current |-> <<FacetClause(key, value)>>,
   accumulator |-> Append(self.accumulator, self.current)]

\* build() that forgets the group still open
FacetBuilder_build_noflush(self) ==
  [accumulator |-> self.accumulator]

FacetBuilder_build(self) ==
  [accumulator |-> Append(self.accumulator, self.current)]

Facets_get(self) == self.accumulator

-----------------------------------------------------------------------------
(* lib.rs: the client descriptor                                           *)

\* MeiliMelo::new(host).with_secret_key(key)
MeiliMelo_new(host, key) == [host |-> host, secret_key |-> key]

\* request(method, path): the pending request, with the key header when set
MeiliMelo_request(self, method, path) ==
  [method |-> method,
   url |-> self.host \o path,
   headers |-> IF IsSome(self.secret_key)
                 THEN <<[name |-> "X-Meili-API-Key", value |-> Unwrap(self.secret_key)]>>
                 ELSE <<>>]

-----------------------------------------------------------------------------
(* search.rs: the query builder                                            *)

\* Query::new with the match flag raised
Query_new_matching(m, index) ==
  [meili |-> m, index |-> index, query |-> None, filters |-> None,
   facets |-> None, limit |-> None, offset |-> None, retrieve |-> None,
   crop |-> None, crop_length |-> None, highlight |-> None,
   distribution |-> None, matches |-> TRUE]

Query_new(m, index) ==
  [meili |-> m, index |-> index, query |-> None, filters |-> None,
   facets |-> None, limit |-> None, offset |-> None, retrieve |-> None,
   crop |-> None, crop_length |-> None, highlight |-> None,
   distribution |-> None, matches |-> FALSE]

\* MeiliMelo::search
MeiliMelo_search(self, index) == Query_new(self, index)

Query_query(self, query) == [self EXCEPT !.query = Some(query)]

Query_filters(self, filters) == [self EXCEPT !.filters = Some(filters)]

Query_limit(self, limit) == [self EXCEPT !.limit = Some(limit)]

\* offset() that also resets the limit
Query_offset_clearing(self, offset) ==
  [self EXCEPT !.offset = Some(offset), !.limit = None]

Query_offset(self, offset) == [self EXCEPT !.offset = Some(offset)]

Query_facets(self, facets) == [self EXCEPT !.facets = Some(Facets_get(facets))]

Query_retrieve(self, attributes) == [self EXCEPT !.retrieve = Some(attributes)]

Query_distribution(self, facets) == [self EXCEPT !.distribution = Some(facets)]

\* enum Crop
Attr(attribute) == [tag |-> "Attr", attribute |-> attribute]
At(attribute, length) == [tag |-> "At", attribute |-> attribute, length |-> length]

\* the closure of crop() that drops the explicit length
CropString_nolength(spec) == spec.attribute

\* the closure of crop(): one directive to its string
CropString(spec) ==
  IF spec.tag = "Attr"
    THEN spec.attribute
    ELSE spec.attribute \o ":" \o ToString(spec.length)

Query_crop(self, attributes) ==
  [self EXCEPT !.crop =
     Some([i \in 1..Len(attributes) |-> CropString(attributes[i])])]

Query_crop_length(self, length) == [self EXCEPT !.crop_length = Some(length)]

Query_highlight(self, attributes) == [self EXCEPT !.highlight = Some(attributes)]

-----------------------------------------------------------------------------
(* JSON values, as serde_json writes and reads them                        *)

JNull == [t |-> "null"]
JStr(s) == [t |-> "str", s |-> s]
JInt(i) == [t |-> "int", i |-> i]
JBool(b) == [t |-> "bool", b |-> b]
JList(l) == [t |-> "list", l |-> l]
JObj(o) == [t |-> "obj", o |-> o]
\* a body that is not JSON at all
NotJson == [t |-> "garbage"]

\* Serialize for Option<&str>, Option<i64>, Option<&[&str]>, Option<Vec<Vec<String>>>:
\* serialize_none writes null
JStrList(l) == JList([i \in 1..Len(l) |-> JStr(l[i])])
JOptStr(o) == IF IsSome(o) THEN JStr(Unwrap(o)) ELSE JNull
JOptInt(o) == IF IsSome(o) THEN JInt(Unwrap(o)) ELSE JNull
JOptStrList(o) == IF IsSome(o) THEN JStrList(Unwrap(o)) ELSE JNull
JOptStrListList(o) ==
  IF IsSome(o)
    THEN JList([i \in 1..Len(Unwrap(o)) |-> JStrList(Unwrap(o)[i])])
    ELSE JNull

\* the derived Serialize of Query: every field not marked skip_serializing,
\* under its renamed key
Query_serialize_fields(self) ==
  [q |-> JOptStr(self.query),
   filters |-> JOptStr(self.filters),
   facetFilters |-> JOptStrListList(self.facets),
   limit |-> JOptInt(self.limit),
   offset |-> JOptInt(self.offset),
   attributesToRetrieve |-> JOptStrList(self.retrieve),
   attributesToCrop |-> JOptStrList(self.crop),
   cropLength |-> JOptInt(self.crop_length),
   attributesToHighlight |-> JOptStrList(self.highlight),
   facetsDistribution |-> JOptStrList(self.distribution),
   matches |-> JBool(self.matches)]

\* a Serialize that leaves out the fields that are None
Query_serialize_skipping(self) ==
  [k \in {k \in DOMAIN Query_serialize_fields(self) :
            Query_serialize_fields(self)[k] # JNull}
     |-> Query_serialize_fields(self)[k]]

Query_serialize(self) == Query_serialize_fields(self)

-----------------------------------------------------------------------------
(* Deserialize: a struct reads a JSON object; a required field must be     *)
(* present with its type, an Option field may be absent or null, unknown   *)
(* keys are ignored. A decoder returns Some(value) or None on error.       *)

HasField(o, k, t) == k \in DOMAIN o /\ o[k].t = t
HasOptField(o, k, t) == k \notin DOMAIN o \/ o[k].t = "null" \/ o[k].t = t
OptField(o, k) == k \in DOMAIN o /\ o[k].t # "null"

\* the schema type R of the example and of the schema macro's documentation:
\* firstname, lastname and the _formatted companion the macro adds
Decode_Formatted(v) ==
  IF /\ v.t = "obj"
     /\ HasField(v.o, "firstname", "str")
     /\ HasField(v.o, "lastname", "str")
    THEN Some([firstname |-> v.o["firstname"].s, lastname |-> v.o["lastname"].s])
    ELSE None

Decode_R(v) ==
  IF /\ v.t = "obj"
     /\ HasField(v.o, "firstname", "str")
     /\ HasField(v.o, "lastname", "str")
     /\ (OptField(v.o, "_formatted") =>
           IsSome(Decode_Formatted(v.o["_formatted"])))
    THEN Some([firstname |-> v.o["firstname"].s,
               lastname |-> v.o["lastname"].s,
               formatted |-> IF OptField(v.o, "_formatted")
                               THEN Decode_Formatted(v.o["_formatted"])
                               ELSE None])
    ELSE None

\* Vec<R>
Decode_Hits(v) ==
  IF /\ v.t = "list"
     /\ \A i \in 1..Len(v.l) : IsSome(Decode_R(v.l[i]))
    THEN Some([i \in 1..Len(v.l) |-> Unwrap(Decode_R(v.l[i]))])
    ELSE None

\* HashMap<String, HashMap<String, i64>>
Decode_Distribution(v) ==
  IF /\ v.t = "obj"
     /\ \A k \in DOMAIN v.o :
          /\ v.o[k].t = "obj"
          /\ \A k2 \in DOMAIN v.o[k].o : v.o[k].o[k2].t = "int"
    THEN Some([k \in DOMAIN v.o |-> [k2 \in DOMAIN v.o[k].o |-> v.o[k].o[k2].i]])
    ELSE None

Results_wellformed(b) ==
  /\ b.t = "obj"
  /\ HasField(b.o, "query", "str")
  /\ HasField(b.o, "exhaustiveNbHits", "bool")
  /\ HasField(b.o, "nbHits", "int")
  /\ HasOptField(b.o, "exhaustiveFacetsCount", "bool")
  /\ (OptField(b.o, "facetsDistribution") =>
        IsSome(Decode_Distribution(b.o["facetsDistribution"])))
  /\ HasField(b.o, "limit", "int")
  /\ HasField(b.o, "offset", "int")
  /\ HasField(b.o, "processingTimeMs", "int")
  /\ "hits" \in DOMAIN b.o
  /\ IsSome(Decode_Hits(b.o["hits"]))

\* a Results decoder that reads limit and offset from each other's key
Decode_Results_swapped(b) ==
  IF Results_wellformed(b)
    THEN Some([query |-> b.o["query"].s,
               exhaustive_hits |-> b.o["exhaustiveNbHits"].b,
               hits |-> b.o["nbHits"].i,
               exhaustive_facets |->
                 IF OptField(b.o, "exhaustiveFacetsCount")
                   THEN Some(b.o["exhaustiveFacetsCount"].b) ELSE None,
               distribution |->
                 IF OptField(b.o, "facetsDistribution")
                   THEN Decode_Distribution(b.o["facetsDistribution"]) ELSE None,
               limit |-> b.o["offset"].i,
               offset |-> b.o["limit"].i,
               duration |-> b.o["processingTimeMs"].i,
               results |-> Unwrap(Decode_Hits(b.o["hits"]))])
    ELSE None

\* response.json::<Results<R>>()
Decode_Results(b) ==
  IF Results_wellformed(b)
    THEN Some([query |-> b.o["query"].s,
               exhaustive_hits |-> b.o["exhaustiveNbHits"].b,
               hits |-> b.o["nbHits"].i,
               exhaustive_facets |->
                 IF OptField(b.o, "exhaustiveFacetsCount")
                   THEN Some(b.o["exhaustiveFacetsCount"].b) ELSE None,
               distribution |->
                 IF OptField(b.o, "facetsDistribution")
                   THEN Decode_Distribution(b.o["facetsDistribution"]) ELSE None,
               limit |-> b.o["limit"].i,
               offset |-> b.o["offset"].i,
               duration |-> b.o["processingTimeMs"].i,
               results |-> Unwrap(Decode_Hits(b.o["hits"]))])
    ELSE None

\* response.json::<QueryError>()
Decode_QueryError(b) ==
  IF /\ b.t = "obj"
     /\ HasField(b.o, "errorType", "str")
     /\ HasField(b.o, "errorCode", "str")
     /\ HasField(b.o, "message", "str")
     /\ HasField(b.o, "errorLink", "str")
    THEN Some([kind |-> b.o["errorType"].s,
               code |-> b.o["errorCode"].s,
               message |-> b.o["message"].s,
               link |-> b.o["errorLink"].s])
    ELSE None

-----------------------------------------------------------------------------
(* search.rs: run()                                                        *)

\* Result<Results<R>, Error> and enum Error
Ok(v) == [tag |-> "Ok", v |-> v]
Err(e) == [tag |-> "Err", e |-> e]
UpstreamError(cause) == [tag |-> "UpstreamError", cause |-> cause]
InvalidQuery(error) == [tag |-> "InvalidQuery", error |-> error]

\* a run() that asks with GET
Query_run_request_get(self) ==
  [method |-> "GET",
   url |-> MeiliMelo_request(self.meili, "GET",
                             "/indexes/" \o self.index \o "/search").url,
   headers |-> MeiliMelo_request(self.meili, "GET",
                                 "/indexes/" \o self.index \o "/search").headers
               \o <<[name |-> "Content-Type", value |-> "application/json"]>>,
   body |-> JObj(Query_serialize(self))]

\* the request run() builds: request(POST, path).json(&self)
Query_run_request(self) ==
  [method |-> "POST",
   url |-> MeiliMelo_request(self.meili, "POST",
                             "/indexes/" \o self.index \o "/search").url,
   headers |-> MeiliMelo_request(self.meili, "POST",
                                 "/indexes/" \o self.index \o "/search").headers
               \o <<[name |-> "Content-Type", value |-> "application/json"]>>,
   body |-> JObj(Query_serialize(self))]

\* a match on the status class instead of on StatusCode::OK
Run_shape_success_class(status) ==
  IF status \in 200..299 THEN "Results" ELSE "QueryError"

\* match response.status(): the shape the body is decoded as
Run_shape(status) ==
  IF status = 200 THEN "Results" ELSE "QueryError"

\* a run() that hands back whatever the error body held
Run_result_lenient(status, body) ==
  IF Run_shape(status) = "Results"
    THEN IF IsSome(Decode_Results(body))
           THEN Ok(Unwrap(Decode_Results(body)))
           ELSE Err(UpstreamError("decode"))
    ELSE IF IsSome(Decode_QueryError(body))
           THEN Err(InvalidQuery(Unwrap(Decode_QueryError(body))))
           ELSE Err(InvalidQuery([kind |-> "", code |-> "", message |-> "", link |-> ""]))

\* a run() that tries the error shape when the result shape fails to decode
Run_result_fallback(status, body) ==
  IF IsSome(Decode_Results(body)) /\ Run_shape(status) = "Results"
    THEN Ok(Unwrap(Decode_Results(body)))
    ELSE IF IsSome(Decode_QueryError(body))
           THEN Err(InvalidQuery(Unwrap(Decode_QueryError(body))))
           ELSE Err(UpstreamError("decode"))

\* the arms of the match: what run() returns for a received response
Run_result(status, body) ==
  IF Run_shape(status) = "Results"
    THEN IF IsSome(Decode_Results(body))
           THEN Ok(Unwrap(Decode_Results(body)))
           ELSE Err(UpstreamError("decode"))
    ELSE IF IsSome(Decode_QueryError(body))
           THEN Err(InvalidQuery(Unwrap(Decode_QueryError(body))))
           ELSE Err(UpstreamError("decode"))

-----------------------------------------------------------------------------
(* Inputs of the query builder and of run()                                *)

TheMeili == MeiliMelo_new("http://meilisearch.example.com:7700", Some("abcdef"))

Indexes == {"employees", "persons"}

QueryArgs == {"johnson", "x"}
FiltersArgs == {"company = ACME AND age > 23"}
LimitArgs == {10}
OffsetArgs == {5}
FacetsArgs ==
  {FacetBuilder_build(FacetBuilder_new("company", "ACME")),
   FacetBuilder_build(
     FacetBuilder_and(
       FacetBuilder_or(FacetBuilder_new("company", "ACME"), "company", "Big Corp"),
       "roles", "Tech"))}
RetrieveArgs == {<<"firstname", "lastname">>}
DistributionArgs == {<<"roles">>}
CropArgs == {<<Attr("overview"), At("description", 10)>>, <<At("lastname", 7)>>}
CropLengthArgs == {32}
HighlightArgs == {<<"overview", "bio">>}

Statuses == {200, 201, 400}

Doc(firstname, lastname) ==
  JObj([firstname |-> JStr(firstname), lastname |-> JStr(lastname)])

DocFormatted(firstname, lastname, marked) ==
  JObj([firstname |-> JStr(firstname), lastname |-> JStr(lastname),
        _formatted |-> JObj([firstname |-> JStr(firstname),
                             lastname |-> JStr(marked)])])

ResultFields(hits) ==
  [query |-> JStr("johnson"),
   exhaustiveNbHits |-> JBool(FALSE),
   nbHits |-> JInt(57),
   exhaustiveFacetsCount |-> JBool(TRUE),
   facetsDistribution |-> JObj([roles |-> JObj([Tech |-> JInt(2), Sales |-> JInt(1)])]),
   limit |-> JInt(20),
   offset |-> JInt(40),
   processingTimeMs |-> JInt(3),
   hits |-> JList(hits)]

ResultFieldsMin(hits) ==
  [query |-> JStr(""),
   exhaustiveNbHits |-> JBool(TRUE),
   nbHits |-> JInt(0),
   limit |-> JInt(20),
   offset |-> JInt(0),
   processingTimeMs |-> JInt(1),
   hits |-> JList(hits)]

ErrorFields ==
  [errorType |-> JStr("invalid_request_error"),
   errorCode |-> JStr("index_not_found"),
   message |-> JStr("Index employees not found"),
   errorLink |-> JStr("https://docs.meilisearch.com/errors#index_not_found")]

Without(o, k) == [x \in DOMAIN o \ {k} |-> o[x]]

TwoHits == <<DocFormatted("Amy", "Johnson", "<em>Johnson</em>"), Doc("Bob", "Johnson")>>

Bodies ==
  {JObj(ResultFields(TwoHits)),
   JObj(ResultFieldsMin(<<>>)),
   JObj(Without(ResultFields(TwoHits), "nbHits")),
   JObj(ResultFieldsMin(<<Doc("Amy", "Johnson"), JObj([firstname |-> JStr("Bob")])>>)),
   JObj(ErrorFields),
   JObj(Without(ErrorFields, "errorLink")),
   JObj(ResultFields(TwoHits) @@ ErrorFields),
   NotJson}

NoBuilder == [current |-> <<>>, accumulator |-> <<>>]

\* the parts of the state a session does not use
IterParked == [rs |-> None, backend |-> <<>>, cur |-> None, yielded |-> <<>>, passes |-> <<>>]
ConcParked == [runs |-> <<>>, finished |-> <<>>]
OpParked == [pc |-> "parked"]

-----------------------------------------------------------------------------
(* The facet builder, from FacetBuilder::new to build()                    *)

\* no query is being built while the facet filter is
FacetInit ==
  /\ fpc = "start"
  /\ builder = NoBuilder
  /\ facetCalls = <<>>
  /\ built = None
  /\ meili = TheMeili
  /\ searchIndex = "employees"
  /\ q = MeiliMelo_search(TheMeili, "employees")
  /\ calls = <<>>
  /\ pc = "parked"
  /\ requests = <<>>
  /\ response = None
  /\ decodes = <<>>
  /\ outcome = None
  /\ it = IterParked
  /\ conc = ConcParked
  /\ op = OpParked

FacetNew ==
  /\ fpc = "start"
  /\ \E key \in FacetKeys, value \in FacetValues :
       /\ builder' = FacetBuilder_new(key, value)
       /\ facetCalls' = <<[op |-> "new", key |-> key, value |-> value]>>
  /\ fpc' = "open"
  /\ UNCHANGED built
  /\ UNCHANGED queryVars
  /\ UNCHANGED otherVars

FacetOr ==
  /\ fpc = "open"
  /\ Len(facetCalls) <= MaxFacetCalls
  /\ \E key \in FacetKeys, value \in FacetValues :
       /\ builder' = FacetBuilder_or(builder, key, value)
       /\ facetCalls' = Append(facetCalls, [op |-> "or", key |-> key, value |-> value])
  /\ UNCHANGED <<fpc, built>>
  /\ UNCHANGED queryVars
  /\ UNCHANGED otherVars

FacetAnd ==
  /\ fpc = "open"
  /\ Len(facetCalls) <= MaxFacetCalls
  /\ \E key \in FacetKeys, value \in FacetValues :
       /\ builder' = FacetBuilder_and(builder, key, value)
       /\ facetCalls' = Append(facetCalls, [op |-> "and", key |-> key, value |-> value])
  /\ UNCHANGED <<fpc, built>>
  /\ UNCHANGED queryVars
  /\ UNCHANGED otherVars

\* build(mut self) consumes the builder
FacetBuild ==
  /\ fpc = "open"
  /\ built' = Some(FacetBuilder_build(builder))
  /\ fpc' = "built"
  /\ UNCHANGED <<builder, facetCalls>>
  /\ UNCHANGED queryVars
  /\ UNCHANGED otherVars

FacetNext ==
  \/ FacetNew
  \/ FacetOr
  \/ FacetAnd
  \/ FacetBuild

SpecFacets == FacetInit /\ [][FacetNext]_vars

-----------------------------------------------------------------------------
(* The query, from search(index) through the setters to run()              *)

QueryInit ==
  /\ meili = TheMeili
  /\ \E index \in Indexes :
       /\ searchIndex = index
       /\ q = MeiliMelo_search(TheMeili, index)
  /\ calls = <<>>
  /\ pc = "building"
  /\ requests = <<>>
  /\ response = None
  /\ decodes = <<>>
  /\ outcome = None
  /\ fpc = "parked"
  /\ builder = NoBuilder
  /\ facetCalls = <<>>
  /\ built = None
  /\ it = IterParked
  /\ conc = ConcParked
  /\ op = OpParked

CanSet == pc = "building" /\ Len(calls) < MaxSetterCalls

SetQuery ==
  /\ CanSet
  /\ \E arg \in QueryArgs :
       /\ q' = Query_query(q, arg)
       /\ calls' = Append(calls, [name |-> "query", arg |-> arg])
  /\ UNCHANGED <<meili, searchIndex, pc, requests, response, decodes, outcome>>
  /\ UNCHANGED facetVars
  /\ UNCHANGED otherVars

SetFilters ==
  /\ CanSet
  /\ \E arg \in FiltersArgs :
       /\ q' = Query_filters(q, arg)
       /\ calls' = Append(calls, [name |-> "filters", arg |-> arg])
  /\ UNCHANGED <<meili, searchIndex, pc, requests, response, decodes, outcome>>
  /\ UNCHANGED facetVars
  /\ UNCHANGED otherVars

SetLimit ==
  /\ CanSet
  /\ \E arg \in LimitArgs :
       /\ q' = Query_limit(q, arg)
       /\ calls' = Append(calls, [name |-> "limit", arg |-> arg])
  /\ UNCHANGED <<meili, searchIndex, pc, requests, response, decodes, outcome>>
  /\ UNCHANGED facetVars
  /\ UNCHANGED otherVars

SetOffset ==
  /\ CanSet
  /\ \E arg \in OffsetArgs :
       /\ q' = Query_offset(q, arg)
       /\ calls' = Append(calls, [name |-> "offset", arg |-> arg])
  /\ UNCHANGED <<meili, searchIndex, pc, requests, response, decodes, outcome>>
  /\ UNCHANGED facetVars
  /\ UNCHANGED otherVars

SetFacets ==
  /\ CanSet
  /\ \E arg \in FacetsArgs :
       /\ q' = Query_facets(q, arg)
       /\ calls' = Append(calls, [name |-> "facets", arg |-> arg])
  /\ UNCHANGED <<meili, searchIndex, pc, requests, response, decodes, outcome>>
  /\ UNCHANGED facetVars
  /\ UNCHANGED otherVars

SetRetrieve ==
  /\ CanSet
  /\ \E arg \in RetrieveArgs :
       /\ q' = Query_retrieve(q, arg)
       /\ calls' = Append(calls, [name |-> "retrieve", arg |-> arg])
  /\ UNCHANGED <<meili, searchIndex, pc, requests, response, decodes, outcome>>
  /\ UNCHANGED facetVars
  /\ UNCHANGED otherVars

SetDistribution ==
  /\ CanSet
  /\ \E arg \in DistributionArgs :
       /\ q' = Query_distribution(q, arg)
       /\ calls' = Append(calls, [name |-> "distribution", arg |-> arg])
  /\ UNCHANGED <<meili, searchIndex, pc, requests, response, decodes, outcome>>
  /\ UNCHANGED facetVars
  /\ UNCHANGED otherVars

SetCrop ==
  /\ CanSet
  /\ \E arg \in CropArgs :
       /\ q' = Query_crop(q, arg)
       /\ calls' = Append(calls, [name |-> "crop", arg |-> arg])
  /\ UNCHANGED <<meili, searchIndex, pc, requests, response, decodes, outcome>>
  /\ UNCHANGED facetVars
  /\ UNCHANGED otherVars

SetCropLength ==
  /\ CanSet
  /\ \E arg \in CropLengthArgs :
       /\ q' = Query_crop_length(q, arg)
       /\ calls' = Append(calls, [name |-> "crop_length", arg |-> arg])
  /\ UNCHANGED <<meili, searchIndex, pc, requests, response, decodes, outcome>>
  /\ UNCHANGED facetVars
  /\ UNCHANGED otherVars

SetHighlight ==
  /\ CanSet
  /\ \E arg \in HighlightArgs :
       /\ q' = Query_highlight(q, arg)
       /\ calls' = Append(calls, [name |-> "highlight", arg |-> arg])
  /\ UNCHANGED <<meili, searchIndex, pc, requests, response, decodes, outcome>>
  /\ UNCHANGED facetVars
  /\ UNCHANGED otherVars

\* run(self): the request is built from the query and handed to the transport
RunSend ==
  /\ pc = "building"
  /\ requests' = Append(requests, Query_run_request(q))
  /\ pc' = "sent"
  /\ UNCHANGED <<meili, searchIndex, q, calls, response, decodes, outcome>>
  /\ UNCHANGED facetVars
  /\ UNCHANGED otherVars

\* send().await fails: map_err and the ? operator return at once
RunSendFails ==
  /\ pc = "sent"
  /\ outcome' = Some(Err(UpstreamError("send")))
  /\ pc' = "done"
  /\ UNCHANGED <<meili, searchIndex, q, calls, requests, response, decodes>>
  /\ UNCHANGED facetVars
  /\ UNCHANGED otherVars

\* send().await succeeds: the response's status line and headers have arrived
RunReceives ==
  /\ pc = "sent"
  /\ \E status \in Statuses :
       response' = Some([status |-> status, body |-> None])
  /\ pc' = "responded"
  /\ UNCHANGED <<meili, searchIndex, q, calls, requests, decodes, outcome>>
  /\ UNCHANGED facetVars
  /\ UNCHANGED otherVars

\* match response.status(): json().await reads the body and decodes it in
\* the shape the status selects
RunDecodes ==
  /\ pc = "responded"
  /\ \E body \in Bodies :
       /\ response' = Some([status |-> Unwrap(response).status, body |-> Some(body)])
       /\ outcome' = Some(Run_result(Unwrap(response).status, body))
  /\ decodes' = Append(decodes, Run_shape(Unwrap(response).status))
  /\ pc' = "done"
  /\ UNCHANGED <<meili, searchIndex, q, calls, requests>>
  /\ UNCHANGED facetVars
  /\ UNCHANGED otherVars

QueryNext ==
  \/ SetQuery
  \/ SetFilters
  \/ SetLimit
  \/ SetOffset
  \/ SetFacets
  \/ SetRetrieve
  \/ SetDistribution
  \/ SetCrop
  \/ SetCropLength
  \/ SetHighlight
  \/ RunSend
  \/ RunSendFails
  \/ RunReceives
  \/ RunDecodes

SpecQuery == QueryInit /\ [][QueryNext]_vars

-----------------------------------------------------------------------------
(* results.rs: iterating a Results<T>                                      *)
(* An iterator is the sequence of the items it has yet to yield.           *)

\* a consuming iterator that walks the hits from the back
Results_into_iter_rev(self) ==
  [i \in 1..Len(self.results) |-> self.results[Len(self.results) + 1 - i]]

\* IntoIterator for Results<T>: self.results.into_iter()
Results_into_iter(self) == self.results

\* IntoIterator for &Results<T>: self.results.iter()
Results_iter(self) == self.results

\* the hit lists a backend may return
HitDocs == {Doc("Amy", "Johnson"), Doc("Bob", "Johnson")}

HitLists ==
  UNION {[1..n -> HitDocs] : n \in 0..MaxHits}

IterInit ==
  /\ \E hits \in HitLists :
       it = [rs |-> Decode_Results(JObj(ResultFieldsMin(hits))),
             backend |-> hits,
             cur |-> None,
             yielded |-> <<>>,
             passes |-> <<>>]
  /\ conc = ConcParked
  /\ op = OpParked
  /\ fpc = "parked"
  /\ builder = NoBuilder
  /\ facetCalls = <<>>
  /\ built = None
  /\ meili = TheMeili
  /\ searchIndex = "employees"
  /\ q = MeiliMelo_search(TheMeili, "employees")
  /\ calls = <<>>
  /\ pc = "parked"
  /\ requests = <<>>
  /\ response = None
  /\ decodes = <<>>
  /\ outcome = None

\* for x in &results: the set is borrowed, not moved
IterByRef ==
  /\ it.cur = None
  /\ IsSome(it.rs)
  /\ Len(it.passes) < MaxPasses
  /\ it' = [it EXCEPT !.cur = Some([kind |-> "ref", rest |-> Results_iter(Unwrap(it.rs))]),
                      !.yielded = <<>>]
  /\ UNCHANGED <<conc, op>>
  /\ UNCHANGED facetVars
  /\ UNCHANGED queryVars

\* for x in results: into_iter(self) moves the set into the iterator
IterConsume ==
  /\ it.cur = None
  /\ IsSome(it.rs)
  /\ Len(it.passes) < MaxPasses
  /\ it' = [it EXCEPT !.cur = Some([kind |-> "owned",
                                    rest |-> Results_into_iter(Unwrap(it.rs))]),
                      !.rs = None,
                      !.yielded = <<>>]
  /\ UNCHANGED <<conc, op>>
  /\ UNCHANGED facetVars
  /\ UNCHANGED queryVars

\* next() returns Some(item)
IterYield ==
  /\ IsSome(it.cur)
  /\ Unwrap(it.cur).rest # <<>>
  /\ it' = [it EXCEPT !.cur = Some([kind |-> Unwrap(it.cur).kind,
                                    rest |-> Tail(Unwrap(it.cur).rest)]),
                      !.yielded = Append(it.yielded, Head(Unwrap(it.cur).rest))]
  /\ UNCHANGED <<conc, op>>
  /\ UNCHANGED facetVars
  /\ UNCHANGED queryVars

\* next() returns None: the loop ends
IterFinish ==
  /\ IsSome(it.cur)
  /\ Unwrap(it.cur).rest = <<>>
  /\ it' = [it EXCEPT !.cur = None,
                      !.yielded = <<>>,
                      !.passes = Append(it.passes, [kind |-> Unwrap(it.cur).kind,
                                                    items |-> it.yielded])]
  /\ UNCHANGED <<conc, op>>
  /\ UNCHANGED facetVars
  /\ UNCHANGED queryVars

IterNext ==
  \/ IterByRef
  \/ IterConsume
  \/ IterYield
  \/ IterFinish

SpecIter == IterInit /\ [][IterNext]_vars

-----------------------------------------------------------------------------
(* Several queries of one descriptor, run concurrently: each run() future  *)
(* advances from one await point to the next, in any interleaving.         *)

Runs == 1..MaxRuns

\* the queries the runs are given
ConcQueries ==
  {Query_query(MeiliMelo_search(TheMeili, "employees"), "johnson"),
   Query_limit(MeiliMelo_search(TheMeili, "persons"), 10)}

\* the bodies the backend answers the runs with
ConcBodies ==
  {JObj(ResultFields(TwoHits)),
   JObj(ResultFieldsMin(<<>>)),
   JObj(ErrorFields),
   JObj(Without(ErrorFields, "errorLink")),
   NotJson}

NewRun(query) ==
  [q |-> query, pc |-> "ready", request |-> None, response |-> None, outcome |-> None]

\* a run that reads the first response any run has received
Run_any_response(runs, r) ==
  runs[CHOOSE x \in DOMAIN runs :
         /\ IsSome(runs[x].response)
         /\ \A y \in DOMAIN runs : IsSome(runs[y].response) => x <= y].response

\* the response a run works on: the local of its own future
Run_own_response(runs, r) == runs[r].response

ConcInit ==
  /\ meili = TheMeili
  /\ \E qs \in [Runs -> ConcQueries] :
       conc = [runs |-> [r \in Runs |-> NewRun(qs[r])], finished |-> <<>>]
  /\ it = IterParked
  /\ op = OpParked
  /\ fpc = "parked"
  /\ builder = NoBuilder
  /\ facetCalls = <<>>
  /\ built = None
  /\ searchIndex = "employees"
  /\ q = MeiliMelo_search(TheMeili, "employees")
  /\ calls = <<>>
  /\ pc = "parked"
  /\ requests = <<>>
  /\ response = None
  /\ decodes = <<>>
  /\ outcome = None

\* run(self): the request is built through the shared descriptor and sent
ConcSend ==
  /\ \E r \in DOMAIN conc.runs :
       /\ conc.runs[r].pc = "ready"
       /\ conc' = [conc EXCEPT
                     !.runs[r].request = Some(Query_run_request(conc.runs[r].q)),
                     !.runs[r].pc = "sent"]
  /\ UNCHANGED <<it, op>>
  /\ UNCHANGED facetVars
  /\ UNCHANGED queryVars

\* send().await fails
ConcSendFails ==
  /\ \E r \in DOMAIN conc.runs :
       /\ conc.runs[r].pc = "sent"
       /\ conc' = [conc EXCEPT
                     !.runs[r].outcome = Some(Err(UpstreamError("send"))),
                     !.runs[r].pc = "done",
                     !.finished = Append(@, r)]
  /\ UNCHANGED <<it, op>>
  /\ UNCHANGED facetVars
  /\ UNCHANGED queryVars

\* send().await succeeds
ConcReceives ==
  /\ \E r \in DOMAIN conc.runs, status \in Statuses :
       /\ conc.runs[r].pc = "sent"
       /\ conc' = [conc EXCEPT
                     !.runs[r].response = Some([status |-> status, body |-> None]),
                     !.runs[r].pc = "responded"]
  /\ UNCHANGED <<it, op>>
  /\ UNCHANGED facetVars
  /\ UNCHANGED queryVars

\* match response.status(): the body is read and decoded
ConcDecodes ==
  /\ \E r \in DOMAIN conc.runs, body \in ConcBodies :
       /\ conc.runs[r].pc = "responded"
       /\ conc' = [conc EXCEPT
                     !.runs[r].response =
                        Some([status |-> Unwrap(conc.runs[r].response).status,
                              body |-> Some(body)]),
                     !.runs[r].outcome =
                        Some(Run_result(Unwrap(Run_own_response(conc.runs, r)).status, body)),
                     !.runs[r].pc = "done",
                     !.finished = Append(@, r)]
  /\ UNCHANGED <<it, op>>
  /\ UNCHANGED facetVars
  /\ UNCHANGED queryVars

ConcNext ==
  \/ ConcSend
  \/ ConcSendFails
  \/ ConcReceives
  \/ ConcDecodes

SpecConc == ConcInit /\ [][ConcNext]_vars

-----------------------------------------------------------------------------
(* The index and document operations (indices.rs, documents.rs), each a    *)
(* request through the descriptor, a send, and a decode of the body.       *)

\* RequestBuilder::json: the body and its content type
Request_json(req, body) ==
  [method |-> req.method,
   url |-> req.url,
   headers |-> req.headers \o <<[name |-> "Content-Type", value |-> "application/json"]>>,
   body |-> Some(body)]

\* a request sent without a body
Request_plain(req) ==
  [method |-> req.method, url |-> req.url, headers |-> req.headers, body |-> None]

Indices_list_request(m) ==
  Request_plain(MeiliMelo_request(m, "GET", "/indexes"))

Indices_create_request(m, uid, name) ==
  Request_json(MeiliMelo_request(m, "POST", "/indexes"),
               JObj([uid |-> JStr(uid), name |-> JStr(name)]))

Indices_delete_request(m, uid) ==
  Request_plain(MeiliMelo_request(m, "DELETE", "/indexes/" \o uid))

Documents_insert_request(m, index, documents) ==
  Request_json(MeiliMelo_request(m, "POST", "/indexes/" \o index \o "/documents"),
               JList(documents))

Documents_list_request(m, index, limit, offset) ==
  Request_plain(MeiliMelo_request(m, "GET",
     "/indexes/" \o index \o "/documents?limit=" \o ToString(limit)
        \o "&offset=" \o ToString(offset)))

Documents_get_request(m, index, uid) ==
  Request_plain(MeiliMelo_request(m, "GET", "/indexes/" \o index \o "/documents/" \o uid))

Documents_delete_request(m, index, uid) ==
  Request_plain(MeiliMelo_request(m, "GET", "/indexes/" \o index \o "/documents/" \o uid))

\* struct Update
Decode_Update(b) ==
  IF b.t = "obj" /\ HasField(b.o, "updateId", "int")
    THEN Some([id |-> b.o["updateId"].i])
    ELSE None

\* struct Index
Decode_Index(b) ==
  IF /\ b.t = "obj"
     /\ HasOptField(b.o, "primaryKey", "str")
     /\ HasField(b.o, "uid", "str")
     /\ HasField(b.o, "name", "str")
     /\ HasOptField(b.o, "createdAt", "str")
     /\ HasOptField(b.o, "updatedAt", "str")
    THEN Some([primary_key |-> IF OptField(b.o, "primaryKey")
                                 THEN Some(b.o["primaryKey"].s) ELSE None,
               uid |-> b.o["uid"].s,
               name |-> b.o["name"].s,
               created_at |-> IF OptField(b.o, "createdAt")
                                THEN Some(b.o["createdAt"].s) ELSE None,
               updated_at |-> IF OptField(b.o, "updatedAt")
                                THEN Some(b.o["updatedAt"].s) ELSE None])
    ELSE None

\* Vec<Index>
Decode_Indexes(b) ==
  IF /\ b.t = "list"
     /\ \A i \in 1..Len(b.l) : IsSome(Decode_Index(b.l[i]))
    THEN Some([i \in 1..Len(b.l) |-> Unwrap(Decode_Index(b.l[i]))])
    ELSE None

\* the success shape each operation decodes the body as
Op_decode(name, body) ==
  CASE name = "indices" -> Decode_Indexes(body)
    [] name = "create_index" -> Decode_Index(body)
    [] name = "insert" -> Decode_Update(body)
    [] name = "list_documents" -> Decode_Hits(body)
    [] name = "get_document" -> Decode_R(body)
    [] name = "delete_document" -> Decode_Update(body)

\* an operation that reads the status as run() does
Op_result_branching(name, status, body) ==
  IF status = 200
    THEN IF IsSome(Op_decode(name, body))
           THEN Ok(Unwrap(Op_decode(name, body)))
           ELSE Err(UpstreamError("decode"))
    ELSE IF IsSome(Decode_QueryError(body))
           THEN Err(InvalidQuery(Unwrap(Decode_QueryError(body))))
           ELSE Err(UpstreamError("decode"))

\* .json::<T>().await.map_err(UpstreamError)? ; Ok(response): the status of
\* the response is never read
Op_result(name, status, body) ==
  IF IsSome(Op_decode(name, body))
    THEN Ok(Unwrap(Op_decode(name, body)))
    ELSE Err(UpstreamError("decode"))

\* the () of delete_index
Unit == [t |-> "unit"]

\* indices::delete: Ok(()) once the send has succeeded
Indices_delete_result(status) == Ok(Unit)

Uids == {"lskywalker", "hsolo"}
IndexNames == {"Employees"}
Paging == {[limit |-> 10, offset |-> 0], [limit |-> 1, offset |-> 5]}
DocumentLists == {<<Doc("Amy", "Johnson")>>, <<>>}

IndexFields ==
  [uid |-> JStr("employees"), name |-> JStr("Employees"), primaryKey |-> JStr("id"),
   createdAt |-> JStr("2020-05-01T10:00:00Z"), updatedAt |-> JNull]

\* the bodies the backend answers the operations with
OpBodies ==
  {JObj([updateId |-> JInt(1)]),
   JObj([updateId |-> JStr("1")]),
   JObj(IndexFields),
   JObj(Without(IndexFields, "createdAt")),
   JObj(Without(IndexFields, "uid")),
   JList(<<JObj(IndexFields)>>),
   JList(TwoHits),
   JList(<<>>),
   Doc("Amy", "Johnson"),
   JObj(ErrorFields),
   NotJson}

OpCalled(name, args, req) ==
  [pc |-> "sent", name |-> name, args |-> args, request |-> Some(req),
   response |-> None, outcome |-> None]

OpInit ==
  /\ meili = TheMeili
  /\ op = [pc |-> "idle", name |-> "none", args |-> [none |-> TRUE], request |-> None,
           response |-> None, outcome |-> None]
  /\ it = IterParked
  /\ conc = ConcParked
  /\ fpc = "parked"
  /\ builder = NoBuilder
  /\ facetCalls = <<>>
  /\ built = None
  /\ searchIndex = "employees"
  /\ q = MeiliMelo_search(TheMeili, "employees")
  /\ calls = <<>>
  /\ pc = "parked"
  /\ requests = <<>>
  /\ response = None
  /\ decodes = <<>>
  /\ outcome = None

CallIndices ==
  /\ op.pc = "idle"
  /\ op' = OpCalled("indices", [none |-> TRUE], Indices_list_request(meili))
  /\ UNCHANGED <<it, conc>>
  /\ UNCHANGED facetVars
  /\ UNCHANGED queryVars

CallCreateIndex ==
  /\ op.pc = "idle"
  /\ \E uid \in Indexes, name \in IndexNames :
       op' = OpCalled("create_index", [uid |-> uid, name |-> name],
                      Indices_create_request(meili, uid, name))
  /\ UNCHANGED <<it, conc>>
  /\ UNCHANGED facetVars
  /\ UNCHANGED queryVars

CallDeleteIndex ==
  /\ op.pc = "idle"
  /\ \E uid \in Indexes :
       op' = OpCalled("delete_index", [uid |-> uid], Indices_delete_request(meili, uid))
  /\ UNCHANGED <<it, conc>>
  /\ UNCHANGED facetVars
  /\ UNCHANGED queryVars

CallInsert ==
  /\ op.pc = "idle"
  /\ \E index \in Indexes, documents \in DocumentLists :
       op' = OpCalled("insert", [index |-> index, documents |-> documents],
                      Documents_insert_request(meili, index, documents))
  /\ UNCHANGED <<it, conc>>
  /\ UNCHANGED facetVars
  /\ UNCHANGED queryVars

CallListDocuments ==
  /\ op.pc = "idle"
  /\ \E index \in Indexes, p \in Paging :
       op' = OpCalled("list_documents",
                      [index |-> index, limit |-> p.limit, offset |-> p.offset],
                      Documents_list_request(meili, index, p.limit, p.offset))
  /\ UNCHANGED <<it, conc>>
  /\ UNCHANGED facetVars
  /\ UNCHANGED queryVars

CallGetDocument ==
  /\ op.pc = "idle"
  /\ \E index \in Indexes, uid \in Uids :
       op' = OpCalled("get_document", [index |-> index, uid |-> uid],
                      Documents_get_request(meili, index, uid))
  /\ UNCHANGED <<it, conc>>
  /\ UNCHANGED facetVars
  /\ UNCHANGED queryVars

CallDeleteDocument ==
  /\ op.pc = "idle"
  /\ \E index \in Indexes, uid \in Uids :
       op' = OpCalled("delete_document", [index |-> index, uid |-> uid],
                      Documents_delete_request(meili, index, uid))
  /\ UNCHANGED <<it, conc>>
  /\ UNCHANGED facetVars
  /\ UNCHANGED queryVars

\* send().await fails: map_err(UpstreamError)?
OpSendFails ==
  /\ op.pc = "sent"
  /\ op' = [op EXCEPT !.outcome = Some(Err(UpstreamError("send"))), !.pc = "done"]
  /\ UNCHANGED <<it, conc>>
  /\ UNCHANGED facetVars
  /\ UNCHANGED queryVars

\* send().await succeeds; the operation goes on to read the body
OpReceives ==
  /\ op.pc = "sent"
  /\ op.name # "delete_index"
  /\ \E status \in Statuses :
       op' = [op EXCEPT !.response = Some([status |-> status, body |-> None]),
                        !.pc = "responded"]
  /\ UNCHANGED <<it, conc>>
  /\ UNCHANGED facetVars
  /\ UNCHANGED queryVars

\* indices::delete: send().await succeeds and the operation returns
DeleteIndexReturns ==
  /\ op.pc = "sent"
  /\ op.name = "delete_index"
  /\ \E status \in Statuses :
       op' = [op EXCEPT !.response = Some([status |-> status, body |-> None]),
                        !.outcome = Some(Indices_delete_result(status)),
                        !.pc = "done"]
  /\ UNCHANGED <<it, conc>>
  /\ UNCHANGED facetVars
  /\ UNCHANGED queryVars

\* json::<T>().await: the body is read and decoded as the success shape
OpDecodes ==
  /\ op.pc = "responded"
  /\ \E body \in OpBodies :
       op' = [op EXCEPT
                !.response = Some([status |-> Unwrap(op.response).status,
                                   body |-> Some(body)]),
                !.outcome = Some(Op_result(op.name, Unwrap(op.response).status, body)),
                !.pc = "done"]
  /\ UNCHANGED <<it, conc>>
  /\ UNCHANGED facetVars
  /\ UNCHANGED queryVars

OpNext ==
  \/ CallIndices
  \/ CallCreateIndex
  \/ CallDeleteIndex
  \/ CallInsert
  \/ CallListDocuments
  \/ CallGetDocument
  \/ CallDeleteDocument
  \/ OpSendFails
  \/ OpReceives
  \/ DeleteIndexReturns
  \/ OpDecodes

SpecOps == OpInit /\ [][OpNext]_vars

\* either session: a facet filter is built, or a query is built and run
Init == FacetInit \/ QueryInit

Next == FacetNext \/ QueryNext

Spec == Init /\ [][Next]_vars

-----------------------------------------------------------------------------
(* The calls made on a builder, read independently of the builder's state  *)

\* number of and calls among the first j calls
AndsUpTo(cs, j) == Cardinality({k \in 1..j : cs[k].op = "and"})

\* the group the j-th call's clause belongs to
GroupOf(cs, j) == AndsUpTo(cs, j) + 1

\* the calls whose clause belongs to group g
CallsOfGroup(cs, g) == {j \in 1..Len(cs) : GroupOf(cs, j) = g}

\* number of or calls made in group g
OrsInGroup(cs, g) ==
  Cardinality({j \in CallsOfGroup(cs, g) : cs[j].op = "or"})

\* position of the j-th call's clause inside its group
PosInGroup(cs, j) ==
  Cardinality({k \in CallsOfGroup(cs, GroupOf(cs, j)) : k <= j})

BuiltGroups == Facets_get(Unwrap(built))

\* C1: build() returns (number of and calls) + 1 groups, the i-th of which
\* has (number of or calls made in it) + 1 clauses; no group is empty and
\* there is at least one group.
C1_GroupCounts ==
  fpc = "built" =>
    /\ Len(BuiltGroups) = AndsUpTo(facetCalls, Len(facetCalls)) + 1
    /\ Len(BuiltGroups) >= 1
    /\ \A i \in 1..Len(BuiltGroups) :
         /\ Len(BuiltGroups[i]) = OrsInGroup(facetCalls, i) + 1
         /\ Len(BuiltGroups[i]) >= 1

\* a built filter with two groups, the first widened by an or call
C1_Witness ==
  /\ fpc = "built"
  /\ Len(BuiltGroups) = 2
  /\ Len(BuiltGroups[1]) = 2
  /\ Len(BuiltGroups[2]) = 1
  /\ facetCalls[2].op = "or"
  /\ facetCalls[3].op = "and"

ExampleCalls ==
  <<[op |-> "new", key |-> "company", value |-> "ACME"],
    [op |-> "or", key |-> "company", value |-> "Big Corp"],
    [op |-> "and", key |-> "roles", value |-> "Tech"]>>

ExampleGroups == << <<"company:ACME", "company:Big Corp">>, <<"roles:Tech">> >>

\* C2: the clauses come out in call order, each "key:value": the clause of
\* the j-th call sits in the group and at the position the calls give it
\* (or appends to the open group, and starts a new last group), the worked
\* example yields its documented value, and a closed group is never changed
\* by a later call.
C2_ClauseOrder ==
  /\ [](fpc = "built" =>
          /\ \A j \in 1..Len(facetCalls) :
               /\ GroupOf(facetCalls, j) <= Len(BuiltGroups)
               /\ PosInGroup(facetCalls, j) <= Len(BuiltGroups[GroupOf(facetCalls, j)])
               /\ BuiltGroups[GroupOf(facetCalls, j)][PosInGroup(facetCalls, j)]
                    = facetCalls[j].key \o ":" \o facetCalls[j].value
          /\ (facetCalls = ExampleCalls => BuiltGroups = ExampleGroups))
  /\ [][fpc = "open" /\ fpc' = "open" =>
          /\ Len(builder'.accumulator) >= Len(builder.accumulator)
          /\ \A g \in 1..Len(builder.accumulator) :
               builder'.accumulator[g] = builder.accumulator[g]
          /\ (Len(builder'.accumulator) = Len(builder.accumulator) =>
                /\ Len(builder'.current) = Len(builder.current) + 1
                /\ \A p \in 1..Len(builder.current) :
                     builder'.current[p] = builder.current[p])
          /\ (Len(builder'.accumulator) > Len(builder.accumulator) =>
                /\ builder'.accumulator = Append(builder.accumulator, builder.current)
                /\ Len(builder'.current) = 1)]_vars

\* the worked example, built
C2_Witness ==
  /\ fpc = "built"
  /\ facetCalls = ExampleCalls
  /\ BuiltGroups = ExampleGroups

-----------------------------------------------------------------------------
(* run(): what was received and what was returned                          *)

Done == pc = "done"
Received == IsSome(response)
Status == Unwrap(response).status
Body == Unwrap(Unwrap(response).body)
Returned == Unwrap(outcome)

IsOk(r) == r.tag = "Ok"
IsInvalidQuery(r) == r.tag = "Err" /\ r.e.tag = "InvalidQuery"
IsUpstream(r) == r.tag = "Err" /\ r.e.tag = "UpstreamError"

\* the wire format of a hit of the schema type
IsHit(v) ==
  /\ v.t = "obj"
  /\ {"firstname", "lastname"} \subseteq DOMAIN v.o
  /\ v.o["firstname"].t = "str"
  /\ v.o["lastname"].t = "str"
  /\ ("_formatted" \in DOMAIN v.o =>
        /\ v.o["_formatted"].t = "obj"
        /\ {"firstname", "lastname"} \subseteq DOMAIN v.o["_formatted"].o
        /\ v.o["_formatted"].o["firstname"].t = "str"
        /\ v.o["_formatted"].o["lastname"].t = "str")

\* the wire format of the success response body
IsResultBody(b) ==
  /\ b.t = "obj"
  /\ {"query", "exhaustiveNbHits", "nbHits", "limit", "offset",
      "processingTimeMs", "hits"} \subseteq DOMAIN b.o
  /\ b.o["query"].t = "str"
  /\ b.o["exhaustiveNbHits"].t = "bool"
  /\ b.o["nbHits"].t = "int"
  /\ b.o["limit"].t = "int"
  /\ b.o["offset"].t = "int"
  /\ b.o["processingTimeMs"].t = "int"
  /\ b.o["hits"].t = "list"
  /\ \A i \in 1..Len(b.o["hits"].l) : IsHit(b.o["hits"].l[i])
  /\ ("exhaustiveFacetsCount" \in DOMAIN b.o => b.o["exhaustiveFacetsCount"].t = "bool")
  /\ ("facetsDistribution" \in DOMAIN b.o =>
        /\ b.o["facetsDistribution"].t = "obj"
        /\ \A k \in DOMAIN b.o["facetsDistribution"].o :
             /\ b.o["facetsDistribution"].o[k].t = "obj"
             /\ \A k2 \in DOMAIN b.o["facetsDistribution"].o[k].o :
                  b.o["facetsDistribution"].o[k].o[k2].t = "int")

\* the wire format of the error response body
IsErrorBody(b) ==
  /\ b.t = "obj"
  /\ {"errorType", "errorCode", "message", "errorLink"} \subseteq DOMAIN b.o
  /\ b.o["errorType"].t = "str"
  /\ b.o["errorCode"].t = "str"
  /\ b.o["message"].t = "str"
  /\ b.o["errorLink"].t = "str"

\* the ResultSet r carries the fields of the body b, each under its own name
SameAsBody(r, b) ==
  /\ r.query = b.o["query"].s
  /\ r.exhaustive_hits = b.o["exhaustiveNbHits"].b
  /\ r.hits = b.o["nbHits"].i
  /\ r.limit = b.o["limit"].i
  /\ r.offset = b.o["offset"].i
  /\ r.duration = b.o["processingTimeMs"].i
  /\ r.exhaustive_facets =
       (IF "exhaustiveFacetsCount" \in DOMAIN b.o
          THEN <<b.o["exhaustiveFacetsCount"].b>> ELSE <<>>)
  /\ IsSome(r.distribution) = ("facetsDistribution" \in DOMAIN b.o)
  /\ (IsSome(r.distribution) =>
        /\ DOMAIN r.distribution[1] = DOMAIN b.o["facetsDistribution"].o
        /\ \A k \in DOMAIN r.distribution[1] :
             /\ DOMAIN r.distribution[1][k] = DOMAIN b.o["facetsDistribution"].o[k].o
             /\ \A k2 \in DOMAIN r.distribution[1][k] :
                  r.distribution[1][k][k2] = b.o["facetsDistribution"].o[k].o[k2].i)
  /\ Len(r.results) = Len(b.o["hits"].l)
  /\ \A i \in 1..Len(r.results) :
       /\ r.results[i].firstname = b.o["hits"].l[i].o["firstname"].s
       /\ r.results[i].lastname = b.o["hits"].l[i].o["lastname"].s
       /\ IsSome(r.results[i].formatted) = ("_formatted" \in DOMAIN b.o["hits"].l[i].o)
       /\ (IsSome(r.results[i].formatted) =>
             /\ r.results[i].formatted[1].firstname
                  = b.o["hits"].l[i].o["_formatted"].o["firstname"].s
             /\ r.results[i].formatted[1].lastname
                  = b.o["hits"].l[i].o["_formatted"].o["lastname"].s)

\* C3 as stated: any status of the success class with a well-formed result
\* body makes run return the decoded ResultSet, equal to the body field by
\* field, and no error.
C3_AnySuccessStatus ==
  (Done /\ Received /\ Status \in 200..299 /\ IsResultBody(Body)) =>
    /\ IsOk(Returned)
    /\ SameAsBody(Returned.v, Body)

\* C3, amended: a response of status 200 with a well-formed result body makes
\* run return the decoded ResultSet, equal to the body field by field, and no
\* error.
C3_Status200 ==
  (Done /\ Received /\ Status = 200 /\ IsResultBody(Body)) =>
    /\ IsOk(Returned)
    /\ SameAsBody(Returned.v, Body)

\* a 200 response with two hits, facets included, decoded and returned
C3_Witness ==
  /\ Done
  /\ Received
  /\ Status = 200
  /\ IsResultBody(Body)
  /\ "facetsDistribution" \in DOMAIN Body.o
  /\ IsOk(Returned)
  /\ Len(Returned.v.results) = 2
  /\ Returned.v.limit # Returned.v.offset

\* C4: for a response whose status is not 200, a well-formed error body makes
\* run return the invalid-query error with kind, code, message and link equal
\* to errorType, errorCode, message and errorLink; a malformed body makes it
\* return the upstream error and never the invalid-query error.
C4_Non200 ==
  (Done /\ Received /\ Status # 200) =>
    /\ (IsErrorBody(Body) =>
          /\ IsInvalidQuery(Returned)
          /\ Returned.e.error.kind = Body.o["errorType"].s
          /\ Returned.e.error.code = Body.o["errorCode"].s
          /\ Returned.e.error.message = Body.o["message"].s
          /\ Returned.e.error.link = Body.o["errorLink"].s)
    /\ (~IsErrorBody(Body) =>
          /\ IsUpstream(Returned)
          /\ ~IsInvalidQuery(Returned))

\* a 201 response with an error body, returned as the invalid-query error
C4_Witness ==
  /\ Done
  /\ Received
  /\ Status = 201
  /\ IsErrorBody(Body)
  /\ IsInvalidQuery(Returned)
  /\ Returned.e.error.code = "index_not_found"

ResultsFieldNames ==
  {"query", "exhaustive_hits", "hits", "exhaustive_facets", "distribution",
   "limit", "offset", "duration", "results"}

QueryErrorFieldNames == {"kind", "code", "message", "link"}

\* the three outcomes of run
OutcomeResultSet(r) ==
  /\ IsOk(r)
  /\ DOMAIN r.v = ResultsFieldNames
  /\ Received
  /\ IsResultBody(Body)
  /\ SameAsBody(r.v, Body)

OutcomeInvalidQuery(r) ==
  /\ IsInvalidQuery(r)
  /\ DOMAIN r.e.error = QueryErrorFieldNames
  /\ Received
  /\ IsErrorBody(Body)

OutcomeUpstream(r) == IsUpstream(r)

\* C5: a completed run has returned exactly one of: a ResultSet (whole,
\* decoded from a well-formed result body), the invalid-query error with its
\* QueryError (decoded from a well-formed error body), or the upstream
\* failure; a run not yet completed has returned nothing.
C5_OneOutcome ==
  /\ (Done =>
        /\ IsSome(outcome)
        /\ Cardinality({k \in {"set", "invalid", "upstream"} :
                          \/ k = "set" /\ OutcomeResultSet(Returned)
                          \/ k = "invalid" /\ OutcomeInvalidQuery(Returned)
                          \/ k = "upstream" /\ OutcomeUpstream(Returned)}) = 1)
  /\ (~Done => outcome = None)

\* the three outcomes all occur; this one is the structured error
C5_Witness ==
  /\ Done
  /\ OutcomeInvalidQuery(Returned)
  /\ ~OutcomeResultSet(Returned)
  /\ ~OutcomeUpstream(Returned)

\* the body is well formed in the shape its status selects
WellFormedForStatus ==
  IF Status = 200 THEN IsResultBody(Body) ELSE IsErrorBody(Body)

\* C6: run returns the upstream error exactly when sending failed or the
\* body does not decode in the shape the status selects; when sending
\* failed no body was decoded and the invalid-query error is not returned.
C6_UpstreamExactly ==
  Done =>
    /\ IsUpstream(Returned) <=> (~Received \/ ~WellFormedForStatus)
    /\ (~Received =>
          /\ decodes = <<>>
          /\ Returned = Err(UpstreamError("send")))
    /\ (Received =>
          decodes = <<IF Status = 200 THEN "Results" ELSE "QueryError">>)

\* a 200 response carrying an error body: the result shape fails to decode
C6_Witness ==
  /\ Done
  /\ Received
  /\ Status = 200
  /\ IsErrorBody(Body)
  /\ ~IsResultBody(Body)
  /\ Returned = Err(UpstreamError("decode"))
  /\ decodes = <<"Results">>

-----------------------------------------------------------------------------
(* The setters called on a query, read from the record of the calls        *)

CallsOf(name) == {i \in 1..Len(calls) : calls[i].name = name}
WasSet(name) == CallsOf(name) # {}
LastArg(name) ==
  calls[CHOOSE i \in CallsOf(name) : \A j \in CallsOf(name) : j <= i].arg

\* Some(argument of the last call of the setter), None when it was never called
LastGiven(name) == IF WasSet(name) THEN <<LastArg(name)>> ELSE <<>>

\* the string a crop directive stands for
DirectiveString(d) ==
  IF d.tag = "Attr"
    THEN d.attribute
    ELSE d.attribute \o ":" \o ToString(d.length)

DirectiveStrings(ds) == [i \in 1..Len(ds) |-> DirectiveString(ds[i])]

QueryFieldNames ==
  {"meili", "index", "query", "filters", "facets", "limit", "offset",
   "retrieve", "crop", "crop_length", "highlight", "distribution", "matches"}

\* C7: a query from search(index) has every optional field empty, the match
\* flag false and the given index; after any setters each field holds what
\* the last call of its setter gave, a field whose setter was never called
\* is empty, index and client are those given; and one setter call changes
\* at most the one field it names.
C7_SettersFrame ==
  /\ [](/\ q.index = searchIndex
        /\ q.meili = meili
        /\ q.matches = FALSE
        /\ q.query = LastGiven("query")
        /\ q.filters = LastGiven("filters")
        /\ q.limit = LastGiven("limit")
        /\ q.offset = LastGiven("offset")
        /\ q.retrieve = LastGiven("retrieve")
        /\ q.highlight = LastGiven("highlight")
        /\ q.distribution = LastGiven("distribution")
        /\ q.crop_length = LastGiven("crop_length")
        /\ q.facets = (IF WasSet("facets")
                         THEN <<LastArg("facets").accumulator>> ELSE <<>>)
        /\ q.crop = (IF WasSet("crop")
                       THEN <<DirectiveStrings(LastArg("crop"))>> ELSE <<>>))
  /\ [][(pc = "building" /\ pc' = "building" /\ Len(calls') = Len(calls) + 1) =>
          \A f \in QueryFieldNames :
            q'[f] # q[f] => f = calls'[Len(calls')].name]_vars

\* limit(10).offset(5): those two fields set, the others empty
C7_Witness ==
  /\ calls = <<[name |-> "limit", arg |-> 10],
               [name |-> "offset", arg |-> 5]>>
  /\ q.limit = <<10>>
  /\ q.offset = <<5>>
  /\ q.query = <<>>
  /\ q.filters = <<>>
  /\ q.facets = <<>>
  /\ q.retrieve = <<>>
  /\ q.crop = <<>>
  /\ q.crop_length = <<>>
  /\ q.highlight = <<>>
  /\ q.distribution = <<>>

ExampleCrop == <<Attr("overview"), At("description", 10)>>

\* C8: after crop(directives) the crop-attribute list has the length and
\* order of the directives, Attr(a) as "a" and At(a, n) as "a:n";
\* [Attr("overview"), At("description", 10)] gives
\* ["overview", "description:10"].
C8_CropStrings ==
  WasSet("crop") =>
    /\ IsSome(q.crop)
    /\ Len(Unwrap(q.crop)) = Len(LastArg("crop"))
    /\ \A i \in 1..Len(LastArg("crop")) :
         Unwrap(q.crop)[i] = DirectiveString(LastArg("crop")[i])
    /\ (LastArg("crop") = ExampleCrop =>
          Unwrap(q.crop) = <<"overview", "description:10">>)

\* the worked example, set on a query
C8_Witness ==
  /\ WasSet("crop")
  /\ LastArg("crop") = ExampleCrop
  /\ q.crop = << <<"overview", "description:10">> >>

\* the body key of each optional parameter, and the JSON value of what its
\* setter was last given
ParamKeys ==
  {"q", "filters", "facetFilters", "limit", "offset", "attributesToRetrieve",
   "attributesToCrop", "cropLength", "attributesToHighlight", "facetsDistribution"}

SetterOf(key) ==
  CASE key = "q" -> "query"
    [] key = "filters" -> "filters"
    [] key = "facetFilters" -> "facets"
    [] key = "limit" -> "limit"
    [] key = "offset" -> "offset"
    [] key = "attributesToRetrieve" -> "retrieve"
    [] key = "attributesToCrop" -> "crop"
    [] key = "cropLength" -> "crop_length"
    [] key = "attributesToHighlight" -> "highlight"
    [] key = "facetsDistribution" -> "distribution"

GivenJson(key) ==
  CASE key \in {"q", "filters"} -> JStr(LastArg(SetterOf(key)))
    [] key \in {"limit", "offset", "cropLength"} -> JInt(LastArg(SetterOf(key)))
    [] key \in {"attributesToRetrieve", "attributesToHighlight", "facetsDistribution"} ->
         JStrList(LastArg(SetterOf(key)))
    [] key = "attributesToCrop" -> JStrList(DirectiveStrings(LastArg("crop")))
    [] key = "facetFilters" ->
         JList([i \in 1..Len(LastArg("facets").accumulator) |->
                  JStrList(LastArg("facets").accumulator[i])])

\* C9 as stated: in the body run sends, a parameter whose setter was called
\* is present with its value and one never set is absent from the body; the
\* index name and the client never appear.
C9_UnsetAbsent ==
  \A r \in 1..Len(requests) :
    /\ requests[r].body.t = "obj"
    /\ \A key \in ParamKeys :
         IF WasSet(SetterOf(key))
           THEN /\ key \in DOMAIN requests[r].body.o
                /\ requests[r].body.o[key] = GivenJson(key)
           ELSE key \notin DOMAIN requests[r].body.o
    /\ {"index", "meili"} \cap DOMAIN requests[r].body.o = {}

\* C9, amended: in the body run sends, every optional parameter is present:
\* with its value when its setter was called, and with the value null when
\* it was never set; the index name and the client never appear.
C9_UnsetNull ==
  \A r \in 1..Len(requests) :
    /\ requests[r].body.t = "obj"
    /\ DOMAIN requests[r].body.o = ParamKeys \cup {"matches"}
    /\ \A key \in ParamKeys :
         requests[r].body.o[key] =
           (IF WasSet(SetterOf(key)) THEN GivenJson(key) ELSE JNull)
    /\ {"index", "meili"} \cap DOMAIN requests[r].body.o = {}

\* a request sent with the limit and the facet filter set and no query text
C9_Witness ==
  /\ Len(requests) = 1
  /\ WasSet("limit")
  /\ WasSet("facets")
  /\ ~WasSet("query")
  /\ requests[1].body.o["limit"] = JInt(10)
  /\ requests[1].body.o["facetFilters"].t = "list"
  /\ requests[1].body.o["q"] = JNull

\* C10: the match-position flag of a query is false whatever setters were
\* called, and the body run sends holds matches = false.
C10_MatchesFalse ==
  /\ q.matches = FALSE
  /\ \A r \in 1..Len(requests) :
       /\ "matches" \in DOMAIN requests[r].body.o
       /\ requests[r].body.o["matches"] = JBool(FALSE)

\* a request sent after two setter calls, with matches = false in its body
C10_Witness ==
  /\ Len(requests) = 1
  /\ Len(calls) >= 2
  /\ requests[1].body.o["matches"] = JBool(FALSE)

-----------------------------------------------------------------------------
(* Iteration over a result set                                             *)

\* the items are the backend's hits, one for one and in the backend's order
SameAsBackend(items) ==
  /\ Len(items) = Len(it.backend)
  /\ \A i \in 1..Len(items) :
       /\ items[i].firstname = it.backend[i].o["firstname"].s
       /\ items[i].lastname = it.backend[i].o["lastname"].s

\* the items yielded so far are the first hits of the backend, in order
PrefixOfBackend(items) ==
  /\ Len(items) <= Len(it.backend)
  /\ \A i \in 1..Len(items) :
       /\ items[i].firstname = it.backend[i].o["firstname"].s
       /\ items[i].lastname = it.backend[i].o["lastname"].s

\* C11: every completed iteration, by reference or consuming, yields the
\* hits in the order the backend returned them, none dropped, duplicated or
\* reordered; iterating by reference leaves the set as it was; a consuming
\* iteration happens at most once, is the last one, and leaves no set to
\* iterate.
C11_IterationOrder ==
  /\ [](/\ \A p \in 1..Len(it.passes) :
             /\ SameAsBackend(it.passes[p].items)
             /\ (it.passes[p].kind = "owned" =>
                   /\ p = Len(it.passes)
                   /\ it.cur = None
                   /\ it.rs = None)
        /\ PrefixOfBackend(it.yielded)
        /\ (IsSome(it.rs) => SameAsBackend(Unwrap(it.rs).results))
        /\ (IsSome(it.cur) /\ Unwrap(it.cur).kind = "owned" => it.rs = None))
  /\ [][(IsSome(it.rs) /\ IsSome(it'.rs)) => it'.rs = it.rs]_vars
  /\ [][it.rs = None => (it'.rs = None /\ Len(it'.passes) <= Len(it.passes) + 1
                          /\ (it.cur = None => it'.cur = None))]_vars

\* two passes by reference and then a consuming one over two distinct hits
C11_Witness ==
  /\ Len(it.passes) = 3
  /\ it.passes[1].kind = "ref"
  /\ it.passes[2].kind = "ref"
  /\ it.passes[3].kind = "owned"
  /\ Len(it.backend) = 2
  /\ it.backend[1] # it.backend[2]
  /\ it.passes[1].items = it.passes[3].items
  /\ it.passes[3].items[1].firstname = it.backend[1].o["firstname"].s
  /\ it.rs = None

-----------------------------------------------------------------------------
(* The requests of one run                                                 *)

Running == pc \in {"sent", "responded", "done"}

\* C12: a run issues exactly one request, a POST to
\* {host}/indexes/{index}/search; once it is issued no further request
\* follows, whether the send fails, the status is not a success or the body
\* fails to decode; and a run that has returned takes no further step.
C12_OneRequest ==
  /\ [](/\ (pc = "building" => requests = <<>>)
        /\ (Running =>
              /\ Len(requests) = 1
              /\ requests[1].method = "POST"
              /\ requests[1].url = meili.host \o "/indexes/" \o searchIndex \o "/search")
        /\ (Done => IsSome(outcome)))
  /\ [][Running => requests' = requests]_vars
  /\ [][pc # "done"]_vars

\* a 400 response whose body fails to decode: one request, the error returned
C12_Witness ==
  /\ Done
  /\ Received
  /\ Status = 400
  /\ Returned = Err(UpstreamError("decode"))
  /\ Len(requests) = 1
  /\ requests[1].method = "POST"
  /\ requests[1].url = "http://meilisearch.example.com:7700/indexes/persons/search"

-----------------------------------------------------------------------------
(* Concurrent runs                                                         *)

\* what a run must return for the response rsp (None: the send failed)
OutcomeFits(out, rsp) ==
  IF rsp = <<>>
    THEN out = Err(UpstreamError("send"))
    ELSE IF rsp[1].status = 200
           THEN IF IsResultBody(rsp[1].body[1])
                  THEN IsOk(out) /\ SameAsBody(out.v, rsp[1].body[1])
                  ELSE out = Err(UpstreamError("decode"))
           ELSE IF IsErrorBody(rsp[1].body[1])
                  THEN /\ IsInvalidQuery(out)
                       /\ out.e.error.kind = rsp[1].body[1].o["errorType"].s
                       /\ out.e.error.code = rsp[1].body[1].o["errorCode"].s
                       /\ out.e.error.message = rsp[1].body[1].o["message"].s
                       /\ out.e.error.link = rsp[1].body[1].o["errorLink"].s
                  ELSE out = Err(UpstreamError("decode"))

\* the request of a run is made from the shared descriptor and its own query
RequestFits(req, query) ==
  /\ req.method = "POST"
  /\ req.url = meili.host \o "/indexes/" \o query.index \o "/search"
  /\ req.headers[1] = [name |-> "X-Meili-API-Key", value |-> meili.secret_key[1]]
  /\ req.body.o["q"] = (IF query.query = <<>> THEN JNull ELSE JStr(query.query[1]))
  /\ req.body.o["limit"] = (IF query.limit = <<>> THEN JNull ELSE JInt(query.limit[1]))

\* C13: with several queries of one descriptor running in any interleaving,
\* the descriptor's host and secret key never change, every request is made
\* from the descriptor and the run's own query, every outcome is the one its
\* own response calls for, a step of one run changes no other run, and a run
\* that has returned is not changed by the runs that complete after it.
C13_IndependentRuns ==
  /\ [](/\ meili = TheMeili
        /\ \A r \in DOMAIN conc.runs :
             /\ conc.runs[r].q.meili = meili
             /\ (IsSome(conc.runs[r].request) =>
                   RequestFits(conc.runs[r].request[1], conc.runs[r].q))
             /\ (conc.runs[r].pc = "done" =>
                   /\ IsSome(conc.runs[r].outcome)
                   /\ OutcomeFits(conc.runs[r].outcome[1], conc.runs[r].response)))
  /\ [][/\ meili' = meili
        /\ \A r1, r2 \in DOMAIN conc.runs :
             (conc'.runs[r1] # conc.runs[r1] /\ conc'.runs[r2] # conc.runs[r2]) => r1 = r2
        /\ \A r \in DOMAIN conc.runs :
             conc.runs[r].pc = "done" => conc'.runs[r] = conc.runs[r]]_vars

\* the run started second returns first, with the structured error of its
\* 400 response; the first returns the result set of its 200 response
C13_Witness ==
  /\ conc.finished = <<2, 1>>
  /\ conc.runs[1].q.index # conc.runs[2].q.index
  /\ IsSome(conc.runs[1].response)
  /\ IsSome(conc.runs[2].response)
  /\ conc.runs[1].response[1].status = 200
  /\ IsOk(conc.runs[1].outcome[1])
  /\ conc.runs[2].response[1].status = 400
  /\ IsInvalidQuery(conc.runs[2].outcome[1])

-----------------------------------------------------------------------------
(* Index and document operations                                           *)

OpSent == op.pc \in {"sent", "responded", "done"}
OpDone == op.pc = "done"
OpReturned == op.outcome[1]

\* C14: delete_document(index, uid) sends DELETE to
\* /indexes/{index}/documents/{uid}, a request that differs from the one
\* get_document(index, uid) sends.  The code sends GET (documents.rs:67).
C14_DeleteMethod ==
  (OpSent /\ op.name = "delete_document") =>
     /\ op.request[1].method = "DELETE"
     /\ op.request[1].url =
          meili.host \o "/indexes/" \o op.args.index \o "/documents/" \o op.args.uid
     /\ op.request[1] # Documents_get_request(meili, op.args.index, op.args.uid)

\* delete_document("employees", "lskywalker") has sent the very request of
\* get_document("employees", "lskywalker")
C14_Witness ==
  /\ OpSent
  /\ op.name = "delete_document"
  /\ op.args = [index |-> "employees", uid |-> "lskywalker"]
  /\ op.request[1].method = "GET"
  /\ op.request[1].url =
       "http://meilisearch.example.com:7700/indexes/employees/documents/lskywalker"
  /\ op.request[1] = Documents_get_request(meili, "employees", "lskywalker")

IsUpdateBody(b) ==
  /\ b.t = "obj"
  /\ "updateId" \in DOMAIN b.o
  /\ b.o["updateId"].t = "int"

IsIndexBody(b) ==
  /\ b.t = "obj"
  /\ {"uid", "name"} \subseteq DOMAIN b.o
  /\ b.o["uid"].t = "str"
  /\ b.o["name"].t = "str"
  /\ \A k \in {"primaryKey", "createdAt", "updatedAt"} \cap DOMAIN b.o :
       b.o[k].t \in {"str", "null"}

\* the body has the shape the operation returns on success
SuccessShape(name, b) ==
  \/ name \in {"insert", "delete_document"} /\ IsUpdateBody(b)
  \/ name = "create_index" /\ IsIndexBody(b)
  \/ name = "indices" /\ b.t = "list" /\ \A i \in 1..Len(b.l) : IsIndexBody(b.l[i])
  \/ name = "list_documents" /\ b.t = "list" /\ \A i \in 1..Len(b.l) : IsHit(b.l[i])
  \/ name = "get_document" /\ IsHit(b)

\* C15: an index or document operation that has returned never returns the
\* invalid-query error; its error is the upstream error of a failed send or
\* of a body that is not of its success shape, and it succeeds exactly when
\* the body is of that shape, whatever the status; delete_index returns
\* success for every response received, whatever its status, and reads no body.
C15_NoStatusBranch ==
  OpDone =>
    /\ IsSome(op.outcome)
    /\ ~IsInvalidQuery(OpReturned)
    /\ (OpReturned.tag = "Err" => IsUpstream(OpReturned))
    /\ (op.response = None <=> OpReturned = Err(UpstreamError("send")))
    /\ (IsSome(op.response) /\ op.name = "delete_index" =>
          /\ OpReturned = Ok(Unit)
          /\ op.response[1].body = None)
    /\ (IsSome(op.response) /\ op.name # "delete_index" =>
          /\ IsSome(op.response[1].body)
          /\ (IsOk(OpReturned) <=> SuccessShape(op.name, op.response[1].body[1]))
          /\ (~IsOk(OpReturned) <=> OpReturned = Err(UpstreamError("decode"))))

\* insert answered with status 400 and the backend's error body returns the
\* upstream error, not the invalid-query error
C15_Witness ==
  /\ OpDone
  /\ op.name = "insert"
  /\ IsSome(op.response)
  /\ op.response[1].status = 400
  /\ IsErrorBody(op.response[1].body[1])
  /\ OpReturned = Err(UpstreamError("decode"))

====
